---- MODULE Spec2Model ----
(***************************************************************************)
(* csv2aba: conversion of payment rows into a CEMTEX ABA document          *)
(* (tools/csv2aba/scripts.js).                                             *)
(*                                                                         *)
(* Strings are sequences of one-character strings, so that trim, replace,  *)
(* padStart, padEnd, join and length are computed, character by character, *)
(* as the JavaScript does.  JavaScript numbers are modelled on the values  *)
(* the program produces: NaN and the (signed) integers, the integers as    *)
(* decimal digit sequences of unbounded size (the 10-digit amount boxes    *)
(* overflow at 10^10, beyond the 32-bit integers of TLC).                   *)
(* An optional value (a value or null) is a sequence of length 0 or 1.     *)
(***************************************************************************)
EXTENDS Integers, Sequences, FiniteSets, TLC

VARIABLES
    today,          \* the value of new Date() during the conversion
    csvData,        \* the parsed rows given to processCsvToAba
    idx,            \* position of the for-of loop in csvData
    row,            \* the row handed to generate_detail_record
    ret,            \* what the last encoder call returned (or that it threw)
    aba_content,    \* the records collected so far
    total_amount,   \* the running total in cents
    output,         \* the document processCsvToAba returned, Null before
    call,           \* arguments of a direct call of the trailer encoder
    previous,       \* the conversion made before this one, Null when none
    pc              \* "start", "loop", "done", "error"; "call", "returned"

vars ==
    <<today, csvData, idx, row, ret, aba_content, total_amount, output, call, previous, pc>>

----------------------------------------------------------------------------
(* Constants of scripts.js *)

SPACE == " "
ZERO == "0"
LINE_LENGTH == 120
CSV_COLUMNS == {"BSB", "Reference", "Name", "Account", "Amount"}
RecordTypes == [DESCRIPTIVE |-> "0", DETAIL |-> "1", FIELD_TOTAL |-> "7"]

Null == <<>>
Some(v) == <<v>>

----------------------------------------------------------------------------
(* String primitives of JavaScript used by the program *)

MinOf(S) == CHOOSE m \in S : \A n \in S : m <= n
MaxOf(S) == CHOOSE m \in S : \A n \in S : m >= n

\* c.repeat(n)
repeat(c, n) == [i \in 1..n |-> c]

\* padStart that leaves s as it is
padStartNone(s, n, c) == s

\* s.padStart(n, c): never shortens s
padStart(s, n, c) == IF Len(s) >= n THEN s ELSE repeat(c, n - Len(s)) \o s

\* s.padEnd(n, c): never shortens s
padEnd(s, n, c) == IF Len(s) >= n THEN s ELSE s \o repeat(c, n - Len(s))

\* s.trim()
trim(s) ==
    LET keep == {i \in 1..Len(s) : s[i] # SPACE}
    IN  IF keep = {} THEN <<>> ELSE SubSeq(s, MinOf(keep), MaxOf(keep))

\* s.replace(c, ''), the pattern a string: only the first occurrence goes
replace(s, c) ==
    LET hits == {i \in 1..Len(s) : s[i] = c}
    IN  IF hits = {} THEN s
        ELSE SubSeq(s, 1, MinOf(hits) - 1) \o SubSeq(s, MinOf(hits) + 1, Len(s))

\* s.slice(-n)
sliceLast(s, n) == IF Len(s) <= n THEN s ELSE SubSeq(s, Len(s) - n + 1, Len(s))

\* parts.join('')
RECURSIVE join(_)
join(parts) == IF parts = <<>> THEN <<>> ELSE Head(parts) \o join(Tail(parts))

\* lines.join('\n'), the final newline forgotten
RECURSIVE joinLinesNoFinal(_)
joinLinesNoFinal(lines) ==
    IF lines = <<>> THEN <<>>
    ELSE IF Len(lines) = 1 THEN Head(lines)
    ELSE Head(lines) \o <<"\n">> \o joinLinesNoFinal(Tail(lines))

\* lines.join('\n') + '\n'
RECURSIVE joinLines(_)
joinLines(lines) ==
    IF lines = <<>> THEN <<"\n">>
    ELSE IF Len(lines) = 1 THEN Head(lines) \o <<"\n">>
    ELSE Head(lines) \o <<"\n">> \o joinLines(Tail(lines))

----------------------------------------------------------------------------
(* Numbers *)

DigitChars == <<"0", "1", "2", "3", "4", "5", "6", "7", "8", "9">>
IsDigit(c) == \E d \in 1..10 : DigitChars[d] = c
DigitOf(c) == (CHOOSE d \in 1..10 : DigitChars[d] = c) - 1

\* digit sequences, most significant first, without leading zeros
RECURSIVE StripZeros(_)
StripZeros(m) == IF Len(m) > 1 /\ m[1] = 0 THEN StripZeros(Tail(m)) ELSE m

PadZeros(m, n) == [i \in 1..(n - Len(m)) |-> 0] \o m

AddMag(a, b) ==
    LET n == (IF Len(a) > Len(b) THEN Len(a) ELSE Len(b)) + 1
        x == PadZeros(a, n)
        y == PadZeros(b, n)
        carry[i \in 1..(n + 1)] ==
            IF i = n + 1 THEN 0 ELSE (x[i] + y[i] + carry[i + 1]) \div 10
    IN  StripZeros([i \in 1..n |-> (x[i] + y[i] + carry[i + 1]) % 10])

\* a - b for a >= b
SubMag(a, b) ==
    LET n == Len(a)
        y == PadZeros(b, n)
        borrow[i \in 1..(n + 1)] ==
            IF i = n + 1 THEN 0
            ELSE IF a[i] - y[i] - borrow[i + 1] < 0 THEN 1 ELSE 0
    IN  StripZeros([i \in 1..n |-> (a[i] - y[i] - borrow[i + 1] + 10) % 10])

\* a < b
LessMag(a, b) ==
    \/ Len(a) < Len(b)
    \/ /\ Len(a) = Len(b)
       /\ \E i \in 1..Len(a) :
            /\ a[i] < b[i]
            /\ \A j \in 1..(i - 1) : a[j] = b[j]

NaN == [nan |-> TRUE, neg |-> FALSE, mag |-> <<>>]
Number(neg, mag) == [nan |-> FALSE, neg |-> neg /\ mag # <<0>>, mag |-> mag]
Zero == Number(FALSE, <<0>>)

RECURSIVE NatDigits(_)
NatDigits(n) == IF n < 10 THEN <<n>> ELSE NatDigits(n \div 10) \o <<n % 10>>

NumberOfInt(n) == IF n < 0 THEN Number(TRUE, NatDigits(-n)) ELSE Number(FALSE, NatDigits(n))

\* a + b of JavaScript on integers and NaN
Plus(a, b) ==
    IF a.nan \/ b.nan THEN NaN
    ELSE IF a.neg = b.neg THEN Number(a.neg, AddMag(a.mag, b.mag))
    ELSE IF LessMag(a.mag, b.mag) THEN Number(b.neg, SubMag(b.mag, a.mag))
    ELSE Number(a.neg, SubMag(a.mag, b.mag))

\* String(n): integers below 10^21 print in plain decimal
String(n) ==
    IF n.nan THEN <<"N", "a", "N">>
    ELSE (IF n.neg THEN <<"-">> ELSE <<>>) \o [i \in 1..Len(n.mag) |-> DigitChars[n.mag[i] + 1]]

\* number of leading decimal digits of s
RECURSIVE DigitPrefix(_)
DigitPrefix(s) == IF s # <<>> /\ IsDigit(Head(s)) THEN 1 + DigitPrefix(Tail(s)) ELSE 0

Digits(s) == [i \in 1..Len(s) |-> DigitOf(s[i])]

\* parseFloat(s): leading white space skipped, an optional sign, then the
\* longest prefix of the form digits[.digits] or .digits; NaN when there is
\* none.  (Exponents and "Infinity" need letters the inputs never hold.)
\* The result is the decimal read: its sign, integer and fraction digits.
parseFloat(s) ==
    LET lead == {i \in 1..Len(s) : s[i] # SPACE}
        t == IF lead = {} THEN <<>> ELSE SubSeq(s, MinOf(lead), Len(s))
        signed == t # <<>> /\ Head(t) \in {"-", "+"}
        u == IF signed THEN Tail(t) ELSE t
        ni == DigitPrefix(u)
        v == SubSeq(u, ni + 1, Len(u))
        nf == IF v # <<>> /\ Head(v) = "." THEN DigitPrefix(Tail(v)) ELSE 0
    IN  IF ni = 0 /\ nf = 0 THEN [nan |-> TRUE, neg |-> FALSE, int |-> <<>>, frac |-> <<>>]
        ELSE [nan |-> FALSE,
              neg |-> signed /\ Head(t) = "-",
              int |-> Digits(SubSeq(u, 1, ni)),
              frac |-> Digits(SubSeq(v, 2, nf + 1))]

\* Math.round(x * 100) for the decimal x read by parseFloat.  Math.round
\* rounds a half towards +Infinity.  The double product is within 2^-18 of
\* the exact one for amounts below 10^10 cents, so the result is the exact
\* one unless x * 100 lies exactly on a half.
MathRoundTimes100(x) ==
    IF x.nan THEN NaN
    ELSE LET f == x.frac \o <<0, 0>>
             whole == StripZeros(x.int \o <<f[1], f[2]>>)
             rest == SubSeq(x.frac, 3, Len(x.frac))
             more == \E i \in 2..Len(rest) : rest[i] # 0
             up == /\ rest # <<>>
                   /\ IF x.neg THEN rest[1] > 5 \/ (rest[1] = 5 /\ more)
                      ELSE rest[1] >= 5
         IN  Number(x.neg, IF up THEN AddMag(whole, <<1>>) ELSE whole)

----------------------------------------------------------------------------
(* The encoders *)

\* what a call gives: a returned value, or an Error thrown by the length check
Returned(v) == [threw |-> FALSE, value |-> v]
Thrown == [threw |-> TRUE, value |-> Null]

\* the test letting through what is longer than a line
LengthOkAtLeast(record) == Len(record) >= LINE_LENGTH

\* the test the three encoders make before returning a record
LengthOk(record) == Len(record) = LINE_LENGTH

\* the date with the year in full
processDateFullYear(d) ==
    padStart(String(NumberOfInt(d.date)), 2, ZERO)
        \o padStart(String(NumberOfInt(d.month + 1)), 2, ZERO)
        \o String(NumberOfInt(d.fullYear))

\* today.getDate(), today.getMonth() + 1, String(today.getFullYear()).slice(-2)
processDate(d) ==
    padStart(String(NumberOfInt(d.date)), 2, ZERO)
        \o padStart(String(NumberOfInt(d.month + 1)), 2, ZERO)
        \o sliceLast(String(NumberOfInt(d.fullYear)), 2)

\* origin.join('') of generate_descriptive_record
descriptive_record(d) ==
    join(<< <<RecordTypes.DESCRIPTIVE>>,
            repeat(SPACE, 17),
            <<"0", "1">>,
            <<"C", "B", "A">>,
            repeat(SPACE, 7),
            padEnd(<<"M", "e", "y", "a">>, 26, SPACE),
            padStart(<<"0", "0">>, 6, ZERO),
            padEnd(<<"P", "A", "Y", "R", "O", "L", "L">>, 12, SPACE),
            processDate(d),
            repeat(SPACE, 40) >>)

generate_descriptive_record(d) ==
    IF LengthOk(descriptive_record(d)) THEN Returned(descriptive_record(d)) ELSE Thrown

\* the test without trim(): white space is taken for a value
IsBlankUntrimmed(r, col) == col \notin DOMAIN r \/ r[col] = <<>>

\* row[col] === undefined || row[col] === null || row[col].trim() === ''
\* (a row is a function from the columns it has to strings; undefined and
\* null are both a column the row does not have)
IsBlank(r, col) == col \notin DOMAIN r \/ trim(r[col]) = <<>>

\* the validation loop over CSV_COLUMNS
IsSkipped(r) == \E col \in CSV_COLUMNS : IsBlank(r, col)

\* row['Amount'].replace('$', '').replace(',', '').trim()
amountStr(r) == trim(replace(replace(r["Amount"], "$"), ","))

\* Math.round(parseFloat(amountStr) * 100)
amount_in_cents(r) == MathRoundTimes100(parseFloat(amountStr(r)))

\* the fields of a detail record, before join('')
detail_fields(r) ==
    LET bsb == trim(r["BSB"])
        account == trim(r["Account"])
        name == trim(r["Name"])
        reference == trim(r["Reference"])
    IN  << <<RecordTypes.DETAIL>>,
           bsb,
           padStart(account, 9, SPACE),
           <<" ">>,
           <<"5", "3">>,
           padStart(String(amount_in_cents(r)), 10, ZERO),
           padEnd(name, 32, SPACE),
           padEnd(reference, 18, SPACE),
           bsb,
           padStart(account, 9, SPACE),
           padEnd(<<"M", "e", "y", "a">>, 16, SPACE),
           repeat(ZERO, 8) >>

detail_record(r) == join(detail_fields(r))

\* returns [detail_record, amount_in_cents], [null, null], or throws
generate_detail_record(r) ==
    IF IsSkipped(r) THEN Returned(<<Null, Null>>)
    ELSE LET rec == detail_record(r)
         IN  IF ~LengthOk(rec) THEN Thrown
             ELSE Returned(<<Some(rec), Some(amount_in_cents(r))>>)

\* the count with the header counted in
detail_record_count_with_header(content_length) == content_length

\* aba_content.length - 1
detail_record_count(content_length) == content_length - 1

\* the fields of the trailer, joined
trailer_record(count, total) ==
    join(<< <<RecordTypes.FIELD_TOTAL>>,
            <<"9", "9", "9", "-", "9", "9", "9">>,
            repeat(SPACE, 12),
            padStart(String(total), 10, ZERO),
            padStart(String(total), 10, ZERO),
            repeat(ZERO, 10),
            repeat(SPACE, 24),
            padStart(String(NumberOfInt(count)), 6, ZERO),
            repeat(SPACE, 40) >>)

\* generate_file_total_record reads of aba_content its length only
file_total_record(content_length, total) ==
    LET rec == trailer_record(detail_record_count(content_length), total)
    IN  IF LengthOk(rec) THEN Returned(rec) ELSE Thrown

\* the count taken as if the trailer were in the list already
generate_file_total_record_after_push(content, total) ==
    file_total_record(Len(content) + 1, total)

generate_file_total_record(content, total) == file_total_record(Len(content), total)

\* the total that keeps the last amount only
total_amount_assigned(total, amount) == amount

\* total_amount += amount_in_cents
total_amount_plus(total, amount) == Plus(total, amount)

----------------------------------------------------------------------------
(* Inputs *)

MaxRows == 2        \* rows of a table

Row(bsb, reference, name, account, amount) ==
    [BSB |-> bsb, Reference |-> reference, Name |-> name, Account |-> account,
     Amount |-> amount]

\* the row without a column (row[col] is undefined)
Without(r, col) == [c \in (DOMAIN r) \ {col} |-> r[c]]

\* the row with another value in a column
With(r, col, v) == [r EXCEPT ![col] = v]

BsbText == <<"0", "0", "0", "-", "0", "0", "0">>
AccountText == <<"1", "5", "7", "1", "0", "8", "2", "3", "1">>
NameText == <<"R", " ", "S", "M", "I", "T", "H">>
ReferenceText == <<"T", "E", "S", "T">>

\* {BSB: "000-000", Reference: "TEST", Name: "R SMITH", Account: "157108231", Amount: "$12.00"}
RowSmith == Row(BsbText, ReferenceText, NameText, AccountText, <<"$", "1", "2", ".", "0", "0">>)

\* Amount "$1,234.56", a short account number
RowJones ==
    Row(<<"0", "6", "2", "-", "0", "0", "0">>, <<"P", "A", "Y">>, <<"J", "O", "N", "E", "S">>,
        <<"1", "2", "-", "3">>, <<"$", "1", ",", "2", "3", "4", ".", "5", "6">>)

\* Amount "99999999.99": the largest that fits the 10-digit box
RowLarge == With(RowSmith, "Amount", repeat("9", 8) \o <<".">> \o repeat("9", 2))

\* a trailing blank row: {BSB: "", Reference: "", Name: "", Account: "", Amount: ""}
RowEmpty == Row(<<>>, <<>>, <<>>, <<>>, <<>>)

\* rows with one column missing, empty or of white space only
BlankRows ==
    { Without(RowSmith, "BSB"),
      With(RowSmith, "Reference", <<" ">>),
      With(RowSmith, "Name", <<>>),
      With(RowSmith, "Account", <<" ", " ">>),
      Without(RowSmith, "Amount") }

\* a name of 33 characters: one more than its box
RowLongName == With(RowSmith, "Name", repeat("N", 33))

\* an Amount that is no number, and a negative one
RowNoNumber == With(RowSmith, "Amount", <<"n", "/", "a">>)
RowNegative == With(RowSmith, "Amount", <<"-", "5">>)

TableRows ==
    {RowSmith, RowJones, RowLarge, RowEmpty, RowLongName, RowNoNumber, RowNegative}
        \cup BlankRows

Tables == UNION {[1..n -> TableRows] : n \in 0..MaxRows}

\* new Date(): getDate() 1..31, getMonth() 0..11, getFullYear()
Date(d, m, y) == [date |-> d, month |-> m, fullYear |-> y]
Dates == {Date(1, 10, 2026), Date(31, 11, 1999)}

----------------------------------------------------------------------------
(* processCsvToAba *)

NoCall == <<>>

Init ==
    /\ today \in Dates
    /\ csvData \in Tables
    /\ idx = 1
    /\ row = Null
    /\ ret = Null
    /\ aba_content = <<>>
    /\ total_amount = Zero
    /\ output = Null
    /\ call = NoCall
    /\ previous = Null
    /\ pc = "start"

\* the list and the total kept from one call to the next, as variables of
\* the module would be
StartStale ==
    /\ pc = "start"
    /\ LET r == generate_descriptive_record(today)
       IN  /\ ret' = Some(r)
           /\ aba_content' = IF r.threw THEN aba_content ELSE Append(aba_content, r.value)
           /\ pc' = IF r.threw THEN "error" ELSE "loop"
    /\ UNCHANGED <<today, csvData, idx, row, total_amount, output, call, previous>>

\* const aba_content = []; aba_content.push(generate_descriptive_record());
\* let total_amount = 0;  Both are locals of the call: whatever an earlier
\* call left is not read.
Start ==
    /\ pc = "start"
    /\ LET r == generate_descriptive_record(today)
       IN  /\ ret' = Some(r)
           /\ aba_content' = IF r.threw THEN <<>> ELSE Append(<<>>, r.value)
           /\ pc' = IF r.threw THEN "error" ELSE "loop"
    /\ total_amount' = Zero
    /\ UNCHANGED <<today, csvData, idx, row, output, call, previous>>

\* one turn of for (const row of csvData)
ProcessRow ==
    /\ pc = "loop"
    /\ idx <= Len(csvData)
    /\ LET r == generate_detail_record(csvData[idx])
           accepted == ~r.threw /\ r.value[1] # Null /\ r.value[2] # Null
       IN  /\ ret' = Some(r)
           /\ aba_content' =
                IF accepted THEN Append(aba_content, r.value[1][1]) ELSE aba_content
           /\ total_amount' =
                IF accepted THEN total_amount_plus(total_amount, r.value[2][1]) ELSE total_amount
           /\ pc' = IF r.threw THEN "error" ELSE "loop"
           /\ idx' = IF r.threw THEN idx ELSE idx + 1
    /\ row' = Some(csvData[idx])
    /\ UNCHANGED <<today, csvData, output, call, previous>>

\* aba_content.push(generate_file_total_record(aba_content, total_amount));
\* return aba_content.join('\n') + '\n';
Finish ==
    /\ pc = "loop"
    /\ idx > Len(csvData)
    /\ LET r == generate_file_total_record(aba_content, total_amount)
       IN  /\ ret' = Some(r)
           /\ aba_content' = IF r.threw THEN aba_content ELSE Append(aba_content, r.value)
           /\ output' =
                IF r.threw THEN output ELSE Some(joinLines(Append(aba_content, r.value)))
           /\ pc' = IF r.threw THEN "error" ELSE "done"
    /\ UNCHANGED <<today, csvData, idx, row, total_amount, call, previous>>

Next == Start \/ ProcessRow \/ Finish

Spec == Init /\ [][Next]_vars

----------------------------------------------------------------------------
(* generate_detail_record alone, over a wider set of rows *)

MaxGroups == 2      \* groups of thousands in an Amount
MaxFraction == 3    \* decimal places of an Amount
MaxNoise == 3       \* length of an arbitrary Amount text

\* all the sequences over S of length at most n
SeqsUpTo(S, n) == UNION {[1..k -> S] : k \in 0..n}

\* Amounts written as currency: an optional "$", one to three digits, groups
\* of a comma and three digits, an optional "." and decimal places.  The
\* digits never put the value times 100 exactly on a half.
LeadTexts == {<<"7">>, <<"0">>, <<"1", "7">>, <<"7", "0", "7">>}
GroupTexts == {<<",", "0", "0", "0">>, <<",", "7", "0", "7">>}
FractionTexts == {<<>>} \cup {<<".">> \o f : f \in SeqsUpTo({"0", "7"}, MaxFraction) \ {<<>>}}

CurrencyAmounts ==
    { sym \o lead \o join(groups) \o frac :
        sym \in {<<>>, <<"$">>}, lead \in LeadTexts,
        groups \in SeqsUpTo(GroupTexts, MaxGroups), frac \in FractionTexts }

\* any text over the characters an Amount is made of, and one that is not
NoiseAmounts == SeqsUpTo({"$", ",", ".", "-", " ", "7", "x"}, MaxNoise)

AmountRows ==
    {With(RowSmith, "Amount", a) : a \in CurrencyAmounts \cup NoiseAmounts}
        \cup {RowSmith, RowJones}

\* rows whose fields fill, fall short of or exceed their boxes
WidthRows ==
    { Row(bsb, repeat("F", nr), repeat("N", nn), repeat("1", na), repeat("9", nd)) :
        bsb \in {BsbText, Tail(BsbText), <<"0">> \o BsbText},
        nr \in {1, 18, 19}, nn \in {1, 32, 33, 34}, na \in {1, 9, 10}, nd \in {8, 9} }

\* rows in which each column is present, missing, empty or white space
FieldStates == {"present", "missing", "empty", "blank"}
RowOfStates(st) ==
    [c \in {c \in CSV_COLUMNS : st[c] # "missing"} |->
        IF st[c] = "present" THEN RowSmith[c]
        ELSE IF st[c] = "empty" THEN <<>> ELSE <<" ", " ">>]
PartialRows == {RowOfStates(st) : st \in [CSV_COLUMNS -> FieldStates]}

DetailRows == AmountRows \cup WidthRows \cup PartialRows

InitDetail ==
    /\ today \in {Date(1, 10, 2026)}
    /\ csvData = <<>>
    /\ idx = 1
    /\ row \in {Some(r) : r \in DetailRows}
    /\ ret = Null
    /\ aba_content = <<>>
    /\ total_amount = Zero
    /\ output = Null
    /\ call = NoCall
    /\ previous = Null
    /\ pc = "detail"

CallDetail ==
    /\ pc = "detail"
    /\ ret' = Some(generate_detail_record(row[1]))
    /\ pc' = "returned"
    /\ UNCHANGED <<today, csvData, idx, row, aba_content, total_amount, output, call, previous>>

NextDetail == CallDetail

SpecDetail == InitDetail /\ [][NextDetail]_vars

----------------------------------------------------------------------------
(* generate_descriptive_record and generate_file_total_record alone *)

MaxTotalDigits == 11    \* decimal digits of a total
MaxCountDigits == 7     \* decimal digits of a record count

HeaderDates ==
    { Date(d, m, y) : d \in {1, 9, 10, 31}, m \in {0, 8, 9, 11},
                      y \in {1970, 1999, 2000, 2009, 2026, 2100} }

\* 10^k
RECURSIVE Pow10(_)
Pow10(k) == IF k = 0 THEN 1 ELSE 10 * Pow10(k - 1)

\* non-negative totals of 1 to MaxTotalDigits digits
Totals ==
    {Zero} \cup { Number(FALSE, <<d>> \o repeat(z, n - 1)) :
                    d \in {1, 9}, z \in {0, 9}, n \in 1..MaxTotalDigits }

\* non-negative counts around each power of ten
Counts == UNION {{Pow10(k) - 1, Pow10(k)} : k \in 0..(MaxCountDigits - 1)}

\* aba_content holds the header and the detail records: its length is the
\* count plus one
TrailerCalls == [length : {n + 1 : n \in Counts}, total : Totals]

InitEncoders ==
    /\ \/ today \in HeaderDates /\ call = NoCall /\ pc = "header"
       \/ today \in {Date(1, 10, 2026)} /\ call \in TrailerCalls /\ pc = "trailer"
    /\ csvData = <<>>
    /\ idx = 1
    /\ row = Null
    /\ ret = Null
    /\ aba_content = <<>>
    /\ total_amount = Zero
    /\ output = Null
    /\ previous = Null

CallHeader ==
    /\ pc = "header"
    /\ ret' = Some(generate_descriptive_record(today))
    /\ pc' = "returned"
    /\ UNCHANGED <<today, csvData, idx, row, aba_content, total_amount, output, call, previous>>

CallTrailer ==
    /\ pc = "trailer"
    /\ ret' = Some(file_total_record(call.length, call.total))
    /\ pc' = "returned"
    /\ UNCHANGED <<today, csvData, idx, row, aba_content, total_amount, output, call, previous>>

NextEncoders == CallHeader \/ CallTrailer

SpecEncoders == InitEncoders /\ [][NextEncoders]_vars

----------------------------------------------------------------------------
(* Two conversions, one after the other: processCsvToAba is called at each
   click of the convert button, with the table and the date of that moment *)

MaxAgainRows == 2   \* rows of a table converted before or after another

\* an accepted row, a skipped row and a row whose record is too long
AgainRows == {RowSmith, RowEmpty, RowLongName}
AgainTables == UNION {[1..n -> AgainRows] : n \in 0..MaxAgainRows}

InitAgain ==
    /\ today \in Dates
    /\ csvData \in AgainTables
    /\ idx = 1
    /\ row = Null
    /\ ret = Null
    /\ aba_content = <<>>
    /\ total_amount = Zero
    /\ output = Null
    /\ call = NoCall
    /\ previous = Null
    /\ pc = "start"

\* the call after a conversion that returned or threw: a table and a date of
\* its own.  What the earlier call left in its list and total stays where
\* it was until the new call assigns its own.
ConvertAgain ==
    /\ pc \in {"done", "error"}
    /\ previous = Null
    /\ previous' = Some([csvData |-> csvData, today |-> today, pc |-> pc, output |-> output])
    /\ csvData' \in AgainTables
    /\ today' \in Dates
    /\ idx' = 1
    /\ row' = Null
    /\ ret' = Null
    /\ output' = Null
    /\ pc' = "start"
    /\ UNCHANGED <<aba_content, total_amount, call>>

NextAgain == Start \/ ProcessRow \/ Finish \/ ConvertAgain

SpecAgain == InitAgain /\ [][NextAgain]_vars

----------------------------------------------------------------------------
(* What the properties are stated with *)

\* the lines of a document: the text before each "\n"
Lines(doc) ==
    LET nl == {i \in 1..Len(doc) : doc[i] = "\n"}
        n == Cardinality(nl)
        pos[k \in 0..n] == IF k = 0 THEN 0 ELSE MinOf({i \in nl : i > pos[k - 1]})
    IN  [k \in 1..n |-> SubSeq(doc, pos[k - 1] + 1, pos[k] - 1)]

\* a column of the row is missing, empty or made of white space only
HasBlankField(r) ==
    \E col \in CSV_COLUMNS :
        \/ col \notin DOMAIN r
        \/ \A i \in 1..Len(r[col]) : r[col][i] = " "

\* the rows of a table with no blank field, in the order of the table
RECURSIVE CompleteRows(_)
CompleteRows(data) ==
    IF data = <<>> THEN <<>>
    ELSE IF HasBlankField(Head(data)) THEN CompleteRows(Tail(data))
    ELSE <<Head(data)>> \o CompleteRows(Tail(data))

\* the sum of the cents of a sequence of rows
RECURSIVE SumOfCents(_)
SumOfCents(rows) ==
    IF rows = <<>> THEN Zero
    ELSE Plus(amount_in_cents(Head(rows)), SumOfCents(Tail(rows)))

Zeros(n) == [i \in 1..n |-> "0"]

\* the document returned, its lines and its last line
Document == output[1]
Trailer == Lines(Document)[Len(Lines(Document))]
DetailLines == {i \in 1..Len(Lines(Document)) : Lines(Document)[i][1] = "1"}

\* the call that has returned
Result == ret[1]

----------------------------------------------------------------------------
(* Properties of processCsvToAba *)

\* C1: in every document returned, the record-count field of the trailer
\* (characters 75-80) is the number of detail lines of the document, which
\* is the number of rows accepted and not the number of rows given.
C1_TrailerCountsDetailLines ==
    pc = "done" =>
        /\ SubSeq(Trailer, 75, 80)
             = padStart(String(NumberOfInt(Cardinality(DetailLines))), 6, "0")
        /\ Cardinality(DetailLines) = Len(CompleteRows(csvData))

\* a document of a table of two rows of which one was skipped
C1_Witness ==
    /\ pc = "done"
    /\ Len(csvData) = 2
    /\ Cardinality(DetailLines) = 1
    /\ SubSeq(Trailer, 75, 80) = <<"0", "0", "0", "0", "0", "1">>

\* C2: in every document returned, the net total of the trailer (characters
\* 21-30) is its credit total (31-40), the debit total (41-50) is ten zeros,
\* and both totals are the sum of the cents returned for the accepted rows,
\* right-justified and zero-filled.
C2_TrailerTotalsAreTheSum ==
    pc = "done" =>
        /\ SubSeq(Trailer, 21, 30) = SubSeq(Trailer, 31, 40)
        /\ SubSeq(Trailer, 41, 50) = Zeros(10)
        /\ SubSeq(Trailer, 21, 30)
             = padStart(String(SumOfCents(CompleteRows(csvData))), 10, "0")

\* 1200 and 123456 cents: the totals are 0000124656
C2_Witness ==
    /\ pc = "done"
    /\ csvData = <<RowSmith, RowJones>>
    /\ SubSeq(Trailer, 21, 30) = <<"0", "0", "0", "0", "1", "2", "4", "6", "5", "6">>
    /\ SubSeq(Trailer, 31, 40) = <<"0", "0", "0", "0", "1", "2", "4", "6", "5", "6">>

\* C3: the turn of the loop on a row with a blank field gets [null, null]
\* from generate_detail_record, leaves the total and the records as they
\* were, and goes on to the next row without aborting.
C3_BlankRowIsSkipped ==
    [][(pc = "loop" /\ idx <= Len(csvData) /\ HasBlankField(csvData[idx])) =>
          /\ ret' = Some(Returned(<<Null, Null>>))
          /\ aba_content' = aba_content
          /\ total_amount' = total_amount
          /\ pc' = "loop"
          /\ idx' = idx + 1]_vars

\* a blank row came first and the row after it was still encoded
C3_Witness ==
    /\ pc = "done"
    /\ Len(csvData) = 2
    /\ HasBlankField(csvData[1])
    /\ ~HasBlankField(csvData[2])
    /\ Len(aba_content) = 3
    /\ total_amount = amount_in_cents(csvData[2])

\* C8: the document is the header, then the detail record of each accepted
\* row in the order of the rows, then the trailer; each line ends with one
\* newline, so there are as many lines as accepted rows plus 2.
C8_DocumentIsHeaderDetailsTrailer ==
    pc = "done" =>
        LET lines == Lines(Document)
            rows == CompleteRows(csvData)
        IN  /\ Document[Len(Document)] = "\n"
            /\ Len(lines) = Len(rows) + 2
            /\ lines[1] = descriptive_record(today)
            /\ \A i \in 1..Len(rows) : lines[i + 1] = detail_record(rows[i])
            /\ lines[Len(lines)][1] = "7"
            /\ \A i \in 1..Len(lines) : Len(lines[i]) = 120
            /\ Len(Document) = 121 * Len(lines)

\* one valid row followed by one blank row gives exactly 3 lines
C8_Witness ==
    /\ pc = "done"
    /\ csvData = <<RowSmith, RowEmpty>>
    /\ Len(Lines(Document)) = 3
    /\ SubSeq(Lines(Document)[2], 21, 30) = <<"0", "0", "0", "0", "0", "0", "1", "2", "0", "0">>

\* C9: no document is returned once a record of a length other than 120 was
\* encoded: the loop never goes past such a row, a document returned holds
\* none, and a conversion that ended with an error has returned nothing.
C9_WrongLengthAborts ==
    /\ pc \in {"loop", "done"} =>
          /\ Len(descriptive_record(today)) = 120
          /\ \A i \in 1..(idx - 1) :
                ~HasBlankField(csvData[i]) => Len(detail_record(csvData[i])) = 120
    /\ pc = "done" =>
          Len(trailer_record(Len(CompleteRows(csvData)), SumOfCents(CompleteRows(csvData)))) = 120
    /\ pc = "error" => output = Null
    /\ output # Null => pc = "done"

\* the second row is over-length after a first row was accepted: an error,
\* and no document
C9_Witness ==
    /\ pc = "error"
    /\ idx = 2
    /\ Len(aba_content) = 2
    /\ Len(detail_record(csvData[2])) # 120
    /\ output = Null

\* C10: a table of which no row is accepted gives no error, and its
\* document is the header and a trailer of count 000000 and totals
\* 0000000000.
C10_EmptyBatch ==
    CompleteRows(csvData) = <<>> =>
        /\ pc # "error"
        /\ pc = "loop" /\ idx > Len(csvData) => ENABLED Finish
        /\ pc = "done" =>
              /\ Len(Lines(Document)) = 2
              /\ Lines(Document)[1] = descriptive_record(today)
              /\ Trailer[1] = "7"
              /\ SubSeq(Trailer, 75, 80) = Zeros(6)
              /\ SubSeq(Trailer, 21, 30) = Zeros(10)
              /\ SubSeq(Trailer, 31, 40) = Zeros(10)

\* the document of a table of two skipped rows
C10_Witness ==
    /\ pc = "done"
    /\ Len(csvData) = 2
    /\ CompleteRows(csvData) = <<>>
    /\ Len(Lines(Document)) = 2

----------------------------------------------------------------------------
(* Properties of the encoders *)

LenMax(s, n) == IF Len(s) > n THEN Len(s) ELSE n

\* the widths of the twelve fields of the detail record of a row, added up
DetailWidth(r) ==
    1 + Len(trim(r["BSB"])) + LenMax(trim(r["Account"]), 9) + 1 + 2
      + LenMax(String(amount_in_cents(r)), 10) + LenMax(trim(r["Name"]), 32)
      + LenMax(trim(r["Reference"]), 18) + Len(trim(r["BSB"]))
      + LenMax(trim(r["Account"]), 9) + 16 + 8

\* every field of the row fits its box, the BSB filling its own
FieldsFit(r) ==
    /\ Len(trim(r["BSB"])) = 7
    /\ Len(trim(r["Account"])) <= 9
    /\ Len(trim(r["Name"])) <= 32
    /\ Len(trim(r["Reference"])) <= 18
    /\ Len(String(amount_in_cents(r))) <= 10

ReturnedRecord(res) == ~res.threw /\ res.value[1] # Null /\ Len(res.value[1][1]) = 120

\* C4 as stated: for every row with its five fields present and not blank,
\* generate_detail_record returns a record of length exactly 120.
C4_ValidRowGivesRecord ==
    (pc = "returned" /\ ~HasBlankField(row[1])) => ReturnedRecord(Result)

\* C4, amended: for every such row, generate_detail_record returns a record
\* of length exactly 120 when the widths of the fields add up to 120, as
\* they do whenever every field fits its box, and throws otherwise.
C4_ValidRowGivesRecordOrThrows ==
    (pc = "returned" /\ ~HasBlankField(row[1])) =>
        /\ IF DetailWidth(row[1]) = 120 THEN ReturnedRecord(Result) ELSE Result.threw
        /\ FieldsFit(row[1]) => ReturnedRecord(Result)

\* a record returned for a row whose account number is padded to its box
C4_Witness ==
    /\ pc = "returned"
    /\ row = Some(RowJones)
    /\ FieldsFit(row[1])
    /\ ReturnedRecord(Result)
    /\ SubSeq(Result.value[1][1], 9, 17) = <<" ", " ", " ", " ", " ", "1", "2", "-", "3">>

\* C5 as stated: both encoders return a record of length exactly 120, for
\* every date and for every non-negative count and total.
C5_HeaderAndTrailerGiveRecord ==
    pc = "returned" => ~Result.threw /\ Len(Result.value) = 120

\* C5, amended: generate_descriptive_record returns a record of length 120
\* for every date; generate_file_total_record returns one for every count
\* of at most 6 digits with a total of at most 10 digits, and throws for
\* every larger count and for every larger total that prints in plain
\* decimal (below 10^21).
C5_HeaderGivesRecordTrailerGivesRecordOrThrows ==
    pc = "returned" =>
        IF call = NoCall THEN ~Result.threw /\ Len(Result.value) = 120
        ELSE IF call.length - 1 < 1000000 /\ Len(call.total.mag) <= 10
             THEN ~Result.threw /\ Len(Result.value) = 120
             ELSE Result.threw

\* the trailer of 999999 records and 9999999999 cents: both boxes full
C5_Witness ==
    /\ pc = "returned"
    /\ call # NoCall
    /\ call.length = 1000000
    /\ call.total = Number(FALSE, [i \in 1..10 |-> 9])
    /\ ~Result.threw
    /\ Len(Result.value) = 120

\* the text, after an optional "$", is digits in groups of three separated
\* by commas (or digits without commas), with an optional decimal part
IsCurrencyText(a) ==
    LET b == IF a # <<>> /\ Head(a) = "$" THEN Tail(a) ELSE a
        dots == {i \in 1..Len(b) : b[i] = "."}
        n == IF dots = {} THEN Len(b) ELSE MinOf(dots) - 1
        commas == {i \in 1..n : b[i] = ","}
    IN  /\ n >= 1
        /\ \A i \in (1..Len(b)) \ (commas \cup {n + 1}) : IsDigit(b[i])
        /\ commas = {} \/ commas = {i \in 2..n : (n - i + 1) % 4 = 0}
        /\ commas # {} => n % 4 # 0

IsSeparator(c) == c \in {"$", ","}
IsNoSeparator(c) == ~IsSeparator(c)

\* the value times 100, rounded, of the text without its "$" and commas
CentsOfCurrencyText(a) == MathRoundTimes100(parseFloat(SelectSeq(a, IsNoSeparator)))

C7_AmountFieldIsTheAmount ==
    (pc = "returned" /\ ~Result.threw /\ Result.value[1] # Null
        /\ Len(trim(row[1]["BSB"])) = 7 /\ Len(trim(row[1]["Account"])) <= 9) =>
        LET field == SubSeq(Result.value[1][1], 21, 30)
            amount == Result.value[2][1]
        IN  /\ \A i \in 1..10 : IsDigit(field[i])
            /\ ~amount.nan
            /\ ~amount.neg
            /\ StripZeros(Digits(field)) = amount.mag

----------------------------------------------------------------------------
(* Properties of consecutive conversions *)

\* C11: a conversion of the same table with the same date as the one before
\* ends as that one did, with the same document, character for character;
\* and whatever table and date came before, a call starts its loop with a
\* list holding its own header only and a total of zero.
C11_SameTableSameDateSameDocument ==
    /\ (previous # Null /\ pc \in {"done", "error"}
          /\ csvData = previous[1].csvData /\ today = previous[1].today) =>
          /\ pc = previous[1].pc
          /\ output = previous[1].output
    /\ (pc = "loop" /\ idx = 1) =>
          /\ aba_content = <<descriptive_record(today)>>
          /\ total_amount = Zero

\* the same table, of an accepted and a skipped row, converted a second time
\* on the same date
C11_Witness ==
    /\ previous # Null
    /\ pc = "done"
    /\ csvData = <<RowSmith, RowEmpty>>
    /\ csvData = previous[1].csvData
    /\ today = previous[1].today
    /\ previous[1].pc = "done"
    /\ output = previous[1].output
    /\ Len(Lines(Document)) = 3

====
